---- MODULE Spec2Model ----
(***************************************************************************)
(* Model of AUViSAM.iSAM, the run driver of front_end_isam.py: the epoch   *)
(* loop over the external-state series, the dt <= 0 filter, the per-epoch  *)
(* initial estimates and prior factors, and the IMU cursor that is moved   *)
(* over the IMU timestamp series up to the epoch's timestamp.              *)
(*                                                                         *)
(* Python indices are 0-based; a TLA+ sequence s holds Python's s[k] at    *)
(* s[k + 1].  An access past the end of a series raises IndexError and     *)
(* ends the run (nothing in the file catches it).                          *)
(***************************************************************************)
EXTENDS Integers, Sequences, FiniteSets, TLC

\* The loop bound of `while state_idx < 100`.
RunLength == 100

\* Bounds of the inputs that are enumerated.
MaxEpochs == 4      \* rows of an external-state series shorter than the run
MaxLead   == 2      \* free leading rows of a series that covers the run
MaxTime   == 2      \* timestamps are drawn from 0..MaxTime
MaxImu    == 2      \* samples of the IMU stream
MaxCoord  == 1      \* x, y, z, u, v, r of a row are drawn from 0..MaxCoord
MaxQuarter == 3     \* phi, theta, psi are 0..MaxQuarter quarter turns (pi/2)

VARIABLES
    iekf_times,     \* self.iekf_times: one timestamp per epoch index
    imu_times,      \* self.imu_times: one timestamp per IMU sample
    state_idx,      \* the epoch index of the driver
    imu_idx,        \* the IMU cursor
    pc,             \* "loop" | "align" | "done" | "failed"
    raised,         \* the series whose access raised IndexError, or "none"
    graph,          \* the factors of this iteration's NonlinearFactorGraph
    initial,        \* the <<key, value>> pairs of this iteration's Values
    isam,           \* the gtsam.ISAM2 object built before the loop
    pim,            \* the measurements integrated into self.pim
    inserted,       \* every <<key, value>> inserted into a Values so far
    added,          \* every factor added to a NonlinearFactorGraph so far
    consumed,       \* <<epoch, position>>: sample consumed while aligning epoch
    nav_rows,       \* rows of self.iekf_states read by a get_nav_state call
    nav_time,       \* the `time` argument of that call
    nav_state       \* the NavState that call returned

vars == <<iekf_times, imu_times, state_idx, imu_idx, pc, raised, graph,
          initial, isam, pim, inserted, added, consumed,
          nav_rows, nav_time, nav_state>>

----------------------------------------------------------------------------
\* Keys (gtsam.symbol_shorthand) and the fixed bias key.
X(i) == <<"X", i>>
V(i) == <<"V", i>>
B(i) == <<"B", i>>
BIAS_KEY == B(0)

KeysOf(values) == {e[1] : e \in values}

\* The constant bias built from the literal acc_bias / gyro_bias arrays.
ConstantBias == <<"bias", 0>>

\* Python's series[k].
At(series, k) == series[k + 1]
InRange(series, k) == k < Len(series)

\* get_nav_state(time): the NavState of row `time` of the external estimator.
\* The rows are as many as the timestamps; a row past the end raises.
get_nav_state(time) ==
    [pose |-> <<"pose", time>>, velocity |-> <<"velocity", time>>]

\* The factors and the values of the state_idx == 0 branch.
PriorFactors_bothOnPose(state) ==
    { [type |-> "PriorFactorPose3",  keys |-> {X(0)}, value |-> state.pose],
      [type |-> "PriorFactorPoint3", keys |-> {X(0)}, value |-> state.velocity] }

PriorFactors(state) ==
    { [type |-> "PriorFactorPose3",  keys |-> {X(0)}, value |-> state.pose],
      [type |-> "PriorFactorPoint3", keys |-> {V(0)}, value |-> state.velocity] }

InitValues(state) ==
    { <<X(0), state.pose>>, <<V(0), state.velocity>>,
      <<BIAS_KEY, ConstantBias>> }

\* The values of the else branch: the new keys, valued with row state_idx - 1.
EpochValues_ownRow(i, prev_state) ==
    { <<X(i), get_nav_state(i).pose>>, <<V(i), get_nav_state(i).velocity>> }

EpochValues_withBias(i, prev_state) ==
    { <<X(i), prev_state.pose>>, <<V(i), prev_state.velocity>>,
      <<BIAS_KEY, ConstantBias>> }

EpochValues(i, prev_state) ==
    { <<X(i), prev_state.pose>>, <<V(i), prev_state.velocity>> }

\* dt of the else branch, and the filter on it.  The scale 1e-9 is positive,
\* so the sign of dt is the sign of the difference.
Dt(i) == At(iekf_times, i) - At(iekf_times, i - 1)

SkipCond_strict(dt) == dt < 0

SkipCond(dt) == dt <= 0

\* The condition of the alignment loop.
AlignCond_inclusive(epoch_time, imu_time) == epoch_time >= imu_time

AlignCond(epoch_time, imu_time) == epoch_time > imu_time

----------------------------------------------------------------------------
\* get_nav_state on the content of a row.  The driver never looks into a
\* NavState, so its specification keeps the rows symbolic (get_nav_state
\* above) and leaves nav_rows empty; SpecNav below calls the adapter on
\* concrete rows.  Angles are counted in quarter turns, for which the sines
\* and cosines are integers.
Cos4(q) == CASE q % 4 = 0 -> 1  [] q % 4 = 1 -> 0 [] q % 4 = 2 -> -1 [] OTHER -> 0
Sin4(q) == CASE q % 4 = 0 -> 0  [] q % 4 = 1 -> 1 [] q % 4 = 2 -> 0  [] OTHER -> -1

Identity3 == <<<<1, 0, 0>>, <<0, 1, 0>>, <<0, 0, 1>>>>

\* numpy's a @ b, a + b and scalar * a on 3x3 matrices.
MatMul(a, b) ==
    [i \in 1..3 |->
        [j \in 1..3 |-> a[i][1] * b[1][j] + a[i][2] * b[2][j] + a[i][3] * b[3][j]]]
MatAdd(a, b) == [i \in 1..3 |-> [j \in 1..3 |-> a[i][j] + b[i][j]]]
MatScale(k, a) == [i \in 1..3 |-> [j \in 1..3 |-> k * a[i][j]]]

\* The cross-product matrix of a vector.
Skew(w) ==
    <<<<0, -w[3], w[2]>>, <<w[3], 0, -w[1]>>, <<-w[2], w[1], 0>>>>

\* R.from_rotvec(v).as_matrix() for a rotation vector with at most one
\* non-zero component, which is not negative: the rotation by |v| about
\* v / |v|, that is I + sin|v| K + (1 - cos|v|) K K with K = Skew(v / |v|).
from_rotvec(v) ==
    LET angle == v[1] + v[2] + v[3]
        axis == IF angle = 0 THEN <<0, 0, 0>>
                ELSE <<v[1] \div angle, v[2] \div angle, v[3] \div angle>>
        K == Skew(axis)
    IN  MatAdd(MatAdd(Identity3, MatScale(Sin4(angle), K)),
               MatScale(1 - Cos4(angle), MatMul(K, K)))

\* rot_mat = r1.as_matrix() @ r2.as_matrix() @ r3.as_matrix()
RotMat_reversed(r1, r2, r3) == MatMul(MatMul(r3, r2), r1)

RotMat(r1, r2, r3) == MatMul(MatMul(r1, r2), r3)

\* The body of get_nav_state(time) on the rows nav_rows.
get_nav_state_of(rows, time) ==
    LET row == At(rows, time)
        r1 == from_rotvec(<<row.phi, 0, 0>>)
        r2 == from_rotvec(<<0, row.theta, 0>>)
        r3 == from_rotvec(<<0, 0, row.psi>>)
    IN  [rotation |-> RotMat(r1, r2, r3),
         position |-> <<row.x, row.y, row.z>>,
         velocity |-> <<row.u, row.v, row.r>>]

\* The value of nav_state before a call has returned.
NoNavState == [rotation |-> <<>>, position |-> <<>>, velocity |-> <<>>]

Coords == 0..MaxCoord
Quarters == 0..MaxQuarter

Rows ==
    [x : Coords, y : Coords, z : Coords, u : Coords, v : Coords, r : Coords,
     phi : Quarters, theta : Quarters, psi : Quarters]

\* A row that differs from `row` in every field.
OtherRow(row) ==
    [x |-> (row.x + 1) % (MaxCoord + 1), y |-> (row.y + 1) % (MaxCoord + 1),
     z |-> (row.z + 1) % (MaxCoord + 1), u |-> (row.u + 1) % (MaxCoord + 1),
     v |-> (row.v + 1) % (MaxCoord + 1), r |-> (row.r + 1) % (MaxCoord + 1),
     phi |-> (row.phi + 1) % (MaxQuarter + 1),
     theta |-> (row.theta + 1) % (MaxQuarter + 1),
     psi |-> (row.psi + 1) % (MaxQuarter + 1)]

----------------------------------------------------------------------------
\* The inputs.
RECURSIVE IsSorted(_)
IsSorted(s) ==
    \/ Len(s) <= 1
    \/ /\ s[1] <= s[2]
       /\ IsSorted(Tail(s))

Series(n) == [1..n -> 0..MaxTime]

\* A series that covers the run: free leading rows, then rows that repeat the
\* last timestamp (step 0) or grow by one from it (step 1) up to the run
\* length.
Padded(lead, step) ==
    [k \in 1..RunLength |->
        IF k <= Len(lead) THEN lead[k]
        ELSE lead[Len(lead)] + step * (k - Len(lead))]

ShortSeries == UNION {Series(n) : n \in 0..MaxEpochs}
LongSeries ==
    {Padded(lead, step) :
        lead \in UNION {Series(n) : n \in 1..MaxLead}, step \in 0..1}

\* A timestamp later than every timestamp of an external-state series.
FarTime == MaxTime + RunLength

\* The IMU stream is ordered by timestamp.
ImuStreams ==
    {s \in UNION {[1..n -> 0..MaxTime \cup {FarTime}] : n \in 0..MaxImu} :
        IsSorted(s)}

Init ==
    /\ iekf_times \in ShortSeries \cup LongSeries
    /\ imu_times \in ImuStreams
    /\ state_idx = 0
    /\ imu_idx = 0
    /\ pc = "loop"
    /\ raised = "none"
    /\ graph = {}
    /\ initial = {}
    /\ isam = [values |-> {}, factors |-> {}, updates |-> 0]
    /\ pim = <<>>
    /\ inserted = {}
    /\ added = {}
    /\ consumed = {}
    /\ nav_rows = <<>>
    /\ nav_time = 0
    /\ nav_state = NoNavState

----------------------------------------------------------------------------
\* `while state_idx < 100` is false: the loop and the run end.
Done ==
    /\ pc = "loop"
    /\ ~(state_idx < RunLength)
    /\ pc' = "done"
    /\ UNCHANGED <<nav_rows, nav_time, nav_state, iekf_times, imu_times, state_idx, imu_idx, raised, graph,
                   initial, isam, pim, inserted, added, consumed>>

\* get_nav_state(state_idx) on a row past the end of the series.
NavStateError_skip ==
    /\ pc = "loop"
    /\ state_idx < RunLength
    /\ ~InRange(iekf_times, state_idx)
    /\ graph' = {}
    /\ initial' = {}
    /\ state_idx' = state_idx + 1
    /\ UNCHANGED <<nav_rows, nav_time, nav_state, iekf_times, imu_times, imu_idx, pc, raised, isam, pim,
                   inserted, added, consumed>>

NavStateError ==
    /\ pc = "loop"
    /\ state_idx < RunLength
    /\ ~InRange(iekf_times, state_idx)
    /\ pc' = "failed"
    /\ raised' = "iekf_states"
    /\ UNCHANGED <<nav_rows, nav_time, nav_state, iekf_times, imu_times, state_idx, imu_idx, graph,
                   initial, isam, pim, inserted, added, consumed>>

\* The iteration of state_idx == 0: priors, initial estimates, bias.
InitEpoch ==
    /\ pc = "loop"
    /\ state_idx < RunLength
    /\ InRange(iekf_times, state_idx)
    /\ state_idx = 0
    /\ LET state == get_nav_state(state_idx) IN
        /\ graph' = PriorFactors(state)
        /\ initial' = InitValues(state)
        /\ added' = added \cup PriorFactors(state)
        /\ inserted' = inserted \cup InitValues(state)
    /\ state_idx' = state_idx + 1
    /\ UNCHANGED <<nav_rows, nav_time, nav_state, iekf_times, imu_times, imu_idx, pc, raised, isam, pim,
                   consumed>>

\* The iteration of an epoch whose dt <= 0: `state_idx += 1; continue`.
SkipEpoch_rewind ==
    /\ pc = "loop"
    /\ state_idx < RunLength
    /\ InRange(iekf_times, state_idx)
    /\ state_idx # 0
    /\ SkipCond(Dt(state_idx))
    /\ graph' = {}
    /\ initial' = {}
    /\ imu_idx' = 0
    /\ state_idx' = state_idx + 1
    /\ UNCHANGED <<nav_rows, nav_time, nav_state, iekf_times, imu_times, pc, raised, isam, pim,
                   inserted, added, consumed>>

SkipEpoch ==
    /\ pc = "loop"
    /\ state_idx < RunLength
    /\ InRange(iekf_times, state_idx)
    /\ state_idx # 0
    /\ SkipCond(Dt(state_idx))
    /\ graph' = {}
    /\ initial' = {}
    /\ state_idx' = state_idx + 1
    /\ UNCHANGED <<nav_rows, nav_time, nav_state, iekf_times, imu_times, imu_idx, pc, raised, isam, pim,
                   inserted, added, consumed>>

\* The else branch up to the alignment loop: the two inserts.  The cursor
\* is the one the earlier epochs left.
BeginEpochFrom(cursor) ==
    /\ pc = "loop"
    /\ state_idx < RunLength
    /\ InRange(iekf_times, state_idx)
    /\ state_idx # 0
    /\ ~SkipCond(Dt(state_idx))
    /\ LET prev_state == get_nav_state(state_idx - 1) IN
        /\ initial' = EpochValues(state_idx, prev_state)
        /\ inserted' = inserted \cup EpochValues(state_idx, prev_state)
    /\ graph' = {}
    /\ imu_idx' = cursor
    /\ pc' = "align"
    /\ UNCHANGED <<nav_rows, nav_time, nav_state, iekf_times, imu_times, state_idx, raised, isam, pim,
                   added, consumed>>

BeginEpoch_rewind == BeginEpochFrom(0)

BeginEpoch == BeginEpochFrom(imu_idx)

\* One pass of the alignment loop: the sample is read and the cursor moves.
AlignConsume_skipSample ==
    /\ pc = "align"
    /\ InRange(imu_times, imu_idx)
    /\ AlignCond(At(iekf_times, state_idx), At(imu_times, imu_idx))
    /\ consumed' = consumed \cup {<<state_idx, imu_idx>>}
    /\ imu_idx' = imu_idx + 2
    /\ UNCHANGED <<nav_rows, nav_time, nav_state, iekf_times, imu_times, state_idx, pc, raised, graph,
                   initial, isam, pim, inserted, added>>

AlignConsume ==
    /\ pc = "align"
    /\ InRange(imu_times, imu_idx)
    /\ AlignCond(At(iekf_times, state_idx), At(imu_times, imu_idx))
    /\ consumed' = consumed \cup {<<state_idx, imu_idx>>}
    /\ imu_idx' = imu_idx + 1
    /\ UNCHANGED <<nav_rows, nav_time, nav_state, iekf_times, imu_times, state_idx, pc, raised, graph,
                   initial, isam, pim, inserted, added>>

\* The loop condition reads imu_times[imu_idx] past the end of the stream.
AlignExhausted ==
    /\ pc = "align"
    /\ ~InRange(imu_times, imu_idx)
    /\ pc' = "failed"
    /\ raised' = "imu_times"
    /\ UNCHANGED <<nav_rows, nav_time, nav_state, iekf_times, imu_times, state_idx, imu_idx, graph,
                   initial, isam, pim, inserted, added, consumed>>

\* The loop condition is false: the iteration ends with `state_idx += 1`.
EndEpoch ==
    /\ pc = "align"
    /\ InRange(imu_times, imu_idx)
    /\ ~AlignCond(At(iekf_times, state_idx), At(imu_times, imu_idx))
    /\ state_idx' = state_idx + 1
    /\ pc' = "loop"
    /\ UNCHANGED <<nav_rows, nav_time, nav_state, iekf_times, imu_times, imu_idx, raised, graph, initial,
                   isam, pim, inserted, added, consumed>>

Next ==
    \/ Done
    \/ NavStateError
    \/ InitEpoch
    \/ SkipEpoch
    \/ BeginEpoch
    \/ AlignConsume
    \/ AlignExhausted
    \/ EndEpoch

Spec == Init /\ [][Next]_vars

----------------------------------------------------------------------------
\* The specification of one get_nav_state call: two rows, either index.
InitNav ==
    /\ nav_rows \in {<<row, OtherRow(row)>> : row \in Rows}
    /\ nav_time \in 0..1
    /\ nav_state = NoNavState
    /\ pc = "nav_call"
    /\ iekf_times = <<>>
    /\ imu_times = <<>>
    /\ state_idx = 0
    /\ imu_idx = 0
    /\ raised = "none"
    /\ graph = {}
    /\ initial = {}
    /\ isam = [values |-> {}, factors |-> {}, updates |-> 0]
    /\ pim = <<>>
    /\ inserted = {}
    /\ added = {}
    /\ consumed = {}

GetNavState ==
    /\ pc = "nav_call"
    /\ InRange(nav_rows, nav_time)
    /\ nav_state' = get_nav_state_of(nav_rows, nav_time)
    /\ pc' = "nav_return"
    /\ UNCHANGED <<nav_rows, nav_time, iekf_times, imu_times, state_idx,
                   imu_idx, raised, graph, initial, isam, pim, inserted,
                   added, consumed>>

NextNav == GetNavState

SpecNav == InitNav /\ [][NextNav]_vars

----------------------------------------------------------------------------
\* Vocabulary of the properties.

\* The epochs for which a pose variable was created.
Processed(i) == X(i) \in KeysOf(inserted)

\* The iteration of index i has ended.
Completed(i) == i < state_idx

\* The stream positions consumed while aligning epoch i.
ConsumedBy(i) == {c[2] : c \in {d \in consumed : d[1] = i}}

\* The number of samples consumed while aligning the epochs before index i.
ConsumedBefore(i) == Cardinality({c \in consumed : c[1] < i})

EpochTime(i) == At(iekf_times, i)
ImuTime(p) == At(imu_times, p)

\* C1: an epoch index i >= 1 with t_i - t_(i-1) <= 0 gets no pose or velocity
\* estimate, no factor and no solver variable, and the run goes on from it:
\* the driver neither aligns nor fails at such an index.
C1_SkippedEpochCreatesNothing ==
    LET created == KeysOf(inserted) IN
    \A i \in 1..state_idx :
        (i < RunLength /\ InRange(iekf_times, i) /\ Dt(i) <= 0) =>
            /\ X(i) \notin created
            /\ V(i) \notin created
            /\ \A f \in added : f.keys \cap {X(i), V(i)} = {}
            /\ isam.values \cap {X(i), V(i)} = {}
            /\ (i = state_idx => pc = "loop" /\ raised = "none")

\* A skipped index lies behind the driver, which is at the next index with
\* an empty Values and an empty graph.
C1_Witness ==
    /\ pc = "loop"
    /\ state_idx >= 2
    /\ state_idx <= Len(iekf_times)
    /\ Dt(state_idx - 1) <= 0
    /\ X(state_idx - 2) \in KeysOf(inserted)
    /\ initial = {}
    /\ graph = {}

\* C2: the IMU cursor never decreases, and a sample consumed while aligning a
\* later epoch has a stream position, and on an ordered stream a timestamp,
\* greater than or equal to that of a sample of an earlier epoch.
C2_CursorNeverRewound ==
    /\ [][imu_idx' >= imu_idx]_vars
    /\ [](\A c \in consumed : \A d \in consumed :
            c[1] < d[1] =>
                /\ c[2] <= d[2]
                /\ IsSorted(imu_times) => ImuTime(c[2]) <= ImuTime(d[2]))

\* Two epochs have each consumed a sample.
C2_Witness ==
    \E c \in consumed : \E d \in consumed :
        /\ c[1] < d[1]
        /\ ImuTime(c[2]) < ImuTime(d[2])

\* The alignment of epoch i has just ended without exhausting the stream:
\* the driver is back at the loop head, one index further.
JustAligned(i) ==
    /\ pc = "loop"
    /\ i >= 1
    /\ state_idx = i + 1
    /\ Processed(i)

\* C3: after the alignment of a processed epoch i every sample it consumed
\* has a timestamp below t_i, and the cursor is on the first sample of the
\* stream whose timestamp is at or above t_i.
C3_CursorOnFirstSampleAtOrAfter ==
    \A i \in 1..(RunLength - 1) :
        JustAligned(i) =>
            /\ \A p \in ConsumedBy(i) : ImuTime(p) < EpochTime(i)
            /\ InRange(imu_times, imu_idx)
            /\ ImuTime(imu_idx) >= EpochTime(i)
            /\ \A p \in 0..(imu_idx - 1) : ImuTime(p) < EpochTime(i)

\* C4: when the cursor is at the end of the stream the alignment ends without
\* an error: no run fails on the access to the IMU timestamps.
C4_ExhaustionRaisesNothing ==
    (pc = "failed") => (raised # "imu_times")

\* C5: the samples consumed for the transition into a processed epoch i are
\* exactly the samples with t_(i-1) < t <= t_i.
C5_ConsumedIsHalfOpenInterval ==
    \A i \in 1..(RunLength - 1) :
        (Completed(i) /\ Processed(i)) =>
            ConsumedBy(i) =
                {p \in 0..(Len(imu_times) - 1) :
                    EpochTime(i - 1) < ImuTime(p) /\ ImuTime(p) <= EpochTime(i)}

\* C5, as amended: the samples consumed for the transition into a processed
\* epoch i are the samples from the cursor the earlier epochs left up to, and
\* without, the first one whose timestamp is at or above t_i; every one of
\* them has a timestamp below t_i, whatever t_(i-1) is.
C5_ConsumedIsRunBelowEpochTime ==
    LET created == KeysOf(inserted) IN
    \A i \in 1..(state_idx - 1) :
        (X(i) \in created) =>
            LET from == ConsumedBefore(i)
                to == ConsumedBefore(i + 1)
            IN  /\ ConsumedBy(i) = from..(to - 1)
                /\ \A p \in ConsumedBy(i) : ImuTime(p) < EpochTime(i)
                /\ InRange(imu_times, to)
                /\ ImuTime(to) >= EpochTime(i)

\* An epoch has consumed a sample stamped at or before the previous epoch,
\* and has left a sample stamped exactly t_i unconsumed.
C5_Witness ==
    \E i \in 1..MaxEpochs :
        /\ Completed(i)
        /\ Processed(i)
        /\ \E p \in ConsumedBy(i) : ImuTime(p) <= EpochTime(i - 1)
        /\ ImuTime(ConsumedBefore(i + 1)) = EpochTime(i)

\* C6: of two processed epochs with no processed epoch between them the
\* later one has the greater timestamp.
C6_ProcessedTimesIncrease ==
    \A i \in 0..(RunLength - 1) : \A j \in 0..(RunLength - 1) :
        ( /\ i < j
          /\ Processed(i)
          /\ Processed(j)
          /\ \A k \in (i + 1)..(j - 1) : ~Processed(k) )
        => EpochTime(j) > EpochTime(i)

\* The keys of the preintegration factor of the transition into epoch i.
ImuFactorKeys(i) == {X(i - 1), V(i - 1), X(i), V(i), BIAS_KEY}

\* The preintegration factors added for the transition into epoch i, built
\* from the samples `samples`.
ImuFactorsOf(i, samples) ==
    {f \in added :
        /\ f.type = "ImuFactor"
        /\ f.keys = ImuFactorKeys(i)
        /\ f.value = samples}

\* The epochs the dt filter lets through: epoch 0 and every index whose
\* timestamp is above the one of the index before it.
NotSkipped == {0} \cup {i \in 1..(RunLength - 1) : Dt(i) > 0}

\* C7: when the driver is at index 1 the step of index 0 has added the two
\* priors, inserted the estimates of X(0), V(0) and the bias, and updated
\* the solver exactly once with them.
C7_InitStepUpdatesSolverOnce ==
    (pc = "loop" /\ state_idx = 1) =>
        LET state == get_nav_state(0) IN
            /\ PriorFactors(state) \subseteq added
            /\ InitValues(state) \subseteq inserted
            /\ isam.updates = 1
            /\ isam.factors = PriorFactors(state)
            /\ isam.values = KeysOf(InitValues(state))

\* C8: for a processed epoch i >= 1 whose step has ended, exactly one
\* preintegration factor on (X(i-1), V(i-1), X(i), V(i), bias), built from the
\* samples consumed for i, was added, and the solver was updated with X(i),
\* V(i).
C8_OneImuFactorAndUpdatePerEpoch ==
    \A i \in 1..(RunLength - 1) :
        (Completed(i) /\ Processed(i)) =>
            /\ Cardinality(ImuFactorsOf(i, ConsumedBy(i))) = 1
            /\ {X(i), V(i)} \subseteq isam.values
            /\ isam.updates >= 1

\* C9: at the end of the run the solver holds the pose and velocity of every
\* epoch that was not skipped, the bias, and nothing else.
C9_SolverHoldsProcessedEpochs ==
    (pc = "done") =>
        isam.values =
            UNION {{X(i), V(i)} : i \in NotSkipped} \cup {BIAS_KEY}

\* C10: every key of a factor added so far has an initial estimate, and no
\* epoch is accepted whose predecessor's variables were never created: the
\* step of such an epoch does not end normally.
C10_FactorKeysHaveEstimates ==
    /\ \A f \in added : f.keys \subseteq KeysOf(inserted)
    /\ \A i \in 1..(RunLength - 1) :
        (Completed(i) /\ Processed(i)) => Processed(i - 1)

\* The solver's current estimate of a key it holds.
SolvedEstimate(key) == <<"estimate", key>>

\* The last epoch before index i for which a pose variable was created.
LastProcessedBefore(i) ==
    CHOOSE k \in 0..(i - 1) :
        /\ Processed(k)
        /\ \A m \in (k + 1)..(i - 1) : ~Processed(m)

PriorTypes == {"PriorFactorPose3", "PriorFactorPoint3"}

\* The priors of epoch 0: one on X(0) with the pose of row 0, one on V(0)
\* with its velocity.
EpochZeroPriors ==
    { [type |-> "PriorFactorPose3",  keys |-> {X(0)}, value |-> <<"pose", 0>>],
      [type |-> "PriorFactorPoint3", keys |-> {V(0)},
       value |-> <<"velocity", 0>>] }

\* C12: the only prior factors ever added are the one on X(0) and the one on
\* V(0), anchored to row 0 of the external estimator; they are added by the
\* step of index 0, and the graph built by a later step holds no factor.
C12_PriorsOnlyAtEpochZero ==
    /\ {f \in added : f.type \in PriorTypes} =
            IF state_idx >= 1 THEN EpochZeroPriors ELSE {}
    /\ (graph # {}) =>
            (pc # "align" /\ state_idx = 1 /\ graph = EpochZeroPriors)

\* The priors are there and a later epoch has been processed.
C12_Witness ==
    /\ EpochZeroPriors \subseteq added
    /\ Processed(2)
    /\ graph = {}

\* C13: the only bias estimate ever inserted is the one of BIAS_KEY, with the
\* constant bias; it is inserted by the step of index 0, and the Values built by
\* a later step holds no bias key.
C13_OneBiasVariable ==
    /\ \A e \in initial :
            (e[1][1] = "B") =>
                /\ e = <<BIAS_KEY, ConstantBias>>
                /\ state_idx = 1
                /\ X(0) \in KeysOf(initial)
    /\ (state_idx >= 1) => (<<BIAS_KEY, ConstantBias>> \in inserted)
    /\ (state_idx = 0) => (inserted = {})

\* The bias is there, and an epoch has been processed and another skipped.
C13_Witness ==
    /\ <<BIAS_KEY, ConstantBias>> \in inserted
    /\ \E i \in 1..MaxEpochs : Processed(i) /\ Completed(i + 1) /\ ~Processed(i + 1)

\* The external-state series has a row for every index the driver visits.
CoversRun == Len(iekf_times) >= RunLength

\* C14: with a series that covers the visited indices the driver goes through
\* the indices up to the bound and ends there: the run never stops in a
\* failure, the index never passes the bound, and the run is done at
\* index 100 exactly.
C14_RunReachesDone ==
    CoversRun =>
        /\ pc # "failed"
        /\ state_idx <= RunLength
        /\ (pc = "done") => (state_idx = RunLength)

\* C15: a processed epoch whose alignment consumed no sample is still
\* processed, and its preintegration factor is the one built from no sample
\* (the identity delta).
C15_EmptySliceGivesIdentityDelta ==
    LET created == KeysOf(inserted) IN
    \A i \in 1..(state_idx - 1) :
        (X(i) \in created /\ ConsumedBy(i) = {}) =>
            /\ V(i) \in created
            /\ Cardinality(ImuFactorsOf(i, {})) = 1
            /\ pim = <<>>

\* C18: the estimates of a processed epoch are inserted only after its
\* alignment has ended, and when the driver has advanced past a processed
\* epoch all four steps are done: its samples are consumed, its factor is
\* built from them, its estimates are inserted and the solver holds them.
C18_PipelineOrderAndAtomicity ==
    LET created == KeysOf(inserted) IN
    /\ (pc = "align") => (X(state_idx) \notin created)
    /\ (pc # "failed") =>
        \A i \in 1..(state_idx - 1) :
            (X(i) \in created) =>
                /\ ImuFactorsOf(i, ConsumedBy(i)) # {}
                /\ {X(i), V(i)} \subseteq isam.values

\* C16: an index past the end of the external-state series stops the run at
\* that index: the driver never goes past it, never aligns at it, the run is
\* not done without a series that covers it, and the failure is raised at
\* the first index without a row, for which nothing was created.
C16_OutOfRangeIndexIsFatal ==
    /\ state_idx <= Len(iekf_times)
    /\ (state_idx = Len(iekf_times)) => (pc # "align")
    /\ (pc = "done") => CoversRun
    /\ (pc = "failed" /\ raised = "iekf_states") =>
        /\ state_idx = Len(iekf_times)
        /\ \A e \in initial : e[1][2] < state_idx

\* The run has failed at the first index without a row, after a processed
\* and a skipped epoch.
C16_Witness ==
    /\ pc = "failed"
    /\ raised = "iekf_states"
    /\ state_idx = Len(iekf_times)
    /\ state_idx >= 3
    /\ Processed(state_idx - 2)
    /\ ~Processed(state_idx - 1)

\* The driver is at the loop head with an index whose dt <= 0.
AtSkippedIndex ==
    /\ pc = "loop"
    /\ state_idx >= 1
    /\ state_idx < RunLength
    /\ InRange(iekf_times, state_idx)
    /\ Dt(state_idx) <= 0

\* C19: the step of a skipped epoch moves the index by one and leaves the IMU
\* cursor, the solver, the preintegrator, and every estimate, factor and
\* consumed sample recorded so far as they are.
C19_SkipChangesOnlyTheIndex ==
    [][AtSkippedIndex =>
        /\ state_idx' = state_idx + 1
        /\ pc' = "loop"
        /\ UNCHANGED <<imu_idx, isam, pim, inserted, added, consumed>>]_vars

\* A skip step has been taken with the cursor already inside the stream.
C19_Witness ==
    /\ pc = "loop"
    /\ state_idx >= 2
    /\ state_idx <= Len(iekf_times)
    /\ Dt(state_idx - 1) <= 0
    /\ imu_idx >= 1
    /\ isam.updates = 0

\* C20: the samples consumed so far are the positions 0 .. imu_idx - 1, each
\* consumed once and none by epoch 0; when the alignment of a processed
\* epoch i has ended every sample stamped before t_i has been consumed,
\* those before a skipped index included.
C20_ConsumedIsPrefix ==
    /\ {c[2] : c \in consumed} = 0..(imu_idx - 1)
    /\ Cardinality(consumed) = imu_idx
    /\ \A c \in consumed : c[1] >= 1
    /\ (pc = "loop" /\ state_idx >= 2 /\ Dt(state_idx - 1) > 0) =>
        \A p \in 0..(Len(imu_times) - 1) :
            (ImuTime(p) < EpochTime(state_idx - 1)) => (p < imu_idx)

\* An epoch that follows a skipped index has consumed a sample stamped at or
\* before the skipped index's timestamp.
C20_Witness ==
    \E c \in consumed :
        /\ c[1] >= 2
        /\ Dt(c[1] - 1) <= 0
        /\ ImuTime(c[2]) <= EpochTime(c[1] - 1)

\* The rotations by q quarter turns about the x, y and z axes.
Rx(q) == <<<<1, 0, 0>>, <<0, Cos4(q), -Sin4(q)>>, <<0, Sin4(q), Cos4(q)>>>>
Ry(q) == <<<<Cos4(q), 0, Sin4(q)>>, <<0, 1, 0>>, <<-Sin4(q), 0, Cos4(q)>>>>
Rz(q) == <<<<Cos4(q), -Sin4(q), 0>>, <<Sin4(q), Cos4(q), 0>>, <<0, 0, 1>>>>

\* C17: the state get_nav_state returns for an index has the row's (x, y, z)
\* as position, its (u, v, r) as velocity, and Rx(phi) Ry(theta) Rz(psi) as
\* orientation: the identity for (0, 0, 0), the quarter turn about x for
\* (pi/2, 0, 0).
C17_NavStateIsRxRyRz ==
    (pc = "nav_return") =>
        LET row == At(nav_rows, nav_time) IN
            /\ nav_state.position = <<row.x, row.y, row.z>>
            /\ nav_state.velocity = <<row.u, row.v, row.r>>
            /\ nav_state.rotation =
                    MatMul(Rx(row.phi), MatMul(Ry(row.theta), Rz(row.psi)))
            /\ (row.phi = 0 /\ row.theta = 0 /\ row.psi = 0) =>
                    (nav_state.rotation = Identity3)
            /\ (row.phi = 1 /\ row.theta = 0 /\ row.psi = 0) =>
                    (nav_state.rotation =
                        <<<<1, 0, 0>>, <<0, 0, -1>>, <<0, 1, 0>>>>)

\* The call has returned the state of the second row, for a mixed triple of
\* angles on which the order of the three rotations matters.
C17_Witness ==
    /\ pc = "nav_return"
    /\ nav_time = 1
    /\ LET row == At(nav_rows, nav_time) IN
        /\ row.phi = 1 /\ row.theta = 2 /\ row.psi = 3
        /\ row.x # row.u
        /\ nav_state.rotation #
                MatMul(Rz(row.psi), MatMul(Ry(row.theta), Rx(row.phi)))

====
